---- MODULE Spec2Model ----
(***************************************************************************)
(* Binary serializers of Relic's SGA-V10 archive format                    *)
(* (src/src/relic/sga/v10/serialization.py).                               *)
(*                                                                         *)
(* Values.  A Python int is the sequence of its base-256 digits, most      *)
(* significant first, without leading zeros (0 is <<>>, 0x1000 is          *)
(* <<16, 0>>); the enum members and the two 'B' fields are small numbers.  *)
(* bytes and str are sequences of byte values and of code points.  The     *)
(* Python value None is <<-1>> where an int, a str or bytes is expected    *)
(* and <<>> where an ArchivePtrs is expected (ptrs holds <<p>> otherwise). *)
(***************************************************************************)
EXTENDS Integers, Sequences, FiniteSets, TLC

VARIABLES stream, pos, mode, ser, prev, last

vars == <<stream, pos, mode, ser, prev, last>>

(***************************************************************************)
(* Generic helpers                                                         *)
(***************************************************************************)
None == <<-1>>

NonePtrs == <<>>

Rep(b, n) == [i \in 1..n |-> b]

Reverse(s) == [i \in 1..Len(s) |-> s[Len(s) + 1 - i]]

Min(a, b) == IF a <= b THEN a ELSE b

Slice(s, off, n) == SubSeq(s, off + 1, Min(off + n, Len(s)))

RECURSIVE Repeat(_, _)
Repeat(s, n) == IF n = 0 THEN <<>> ELSE s \o Repeat(s, n - 1)

\* s without its trailing elements equal to z
RStrip(s, z) ==
    LET keep == {i \in 1..Len(s) : s[i] # z} IN
    IF keep = {} THEN <<>>
    ELSE SubSeq(s, 1, CHOOSE i \in keep : \A j \in keep : j <= i)

\* the concatenation of the sequences ss[lo], ..., ss[hi]
RECURSIVE Flatten(_, _, _)
Flatten(ss, lo, hi) ==
    IF lo > hi THEN <<>>
    ELSE IF lo = hi THEN ss[lo]
    ELSE Flatten(ss, lo, (lo + hi) \div 2) \o Flatten(ss, (lo + hi) \div 2 + 1, hi)

IsBytes(b) == \A i \in 1..Len(b) : b[i] \in 0..255

\* a Python int that fits an unsigned field of w bytes
IsUInt(v, w) == /\ Len(v) <= w
                /\ IsBytes(v)
                /\ (v # <<>> => v[1] # 0)

RECURSIVE BitAnd(_, _)
BitAnd(a, b) ==
    IF a = 0 \/ b = 0 THEN 0
    ELSE 2 * BitAnd(a \div 2, b \div 2) + (IF a % 2 = 1 /\ b % 2 = 1 THEN 1 ELSE 0)

RECURSIVE BitOr(_, _)
BitOr(a, b) ==
    IF a = 0 THEN b
    ELSE IF b = 0 THEN a
    ELSE 2 * BitOr(a \div 2, b \div 2) + (IF a % 2 = 1 \/ b % 2 = 1 THEN 1 ELSE 0)

RECURSIVE PyInt(_)
PyInt(n) == IF n = 0 THEN <<>> ELSE PyInt(n \div 256) \o <<n % 256>>

RECURSIVE ShiftLeft(_, _)
ShiftLeft(a, n) == IF n = 0 THEN a ELSE ShiftLeft(2 * a, n - 1)

RECURSIVE ShiftRight(_, _)
ShiftRight(a, n) == IF n = 0 THEN a ELSE ShiftRight(a \div 2, n - 1)

(***************************************************************************)
(* The stream (a BytesIO): a buffer and a cursor                           *)
(***************************************************************************)
StreamRead(buf, at, n) == IF at >= Len(buf) THEN <<>> ELSE Slice(buf, at, n)

StreamWrite(buf, at, data) ==
    IF data = <<>> THEN buf
    ELSE (IF at <= Len(buf) THEN SubSeq(buf, 1, at)
          ELSE buf \o Rep(0, at - Len(buf)))
         \o data
         \o SubSeq(buf, at + Len(data) + 1, Len(buf))

(***************************************************************************)
(* Struct: little-endian, unaligned layouts ("<...")                       *)
(***************************************************************************)
FieldSize(f) == CASE f = "B" -> 1
                  [] f = "I" -> 4
                  [] f = "Q" -> 8
                  [] f = "128s" -> 128
                  [] f = "256s" -> 256

IsBytesField(f) == f \in {"128s", "256s"}

RECURSIVE StructSizeUpTo(_, _)
StructSizeUpTo(layout, n) ==
    IF n = 0 THEN 0 ELSE StructSizeUpTo(layout, n - 1) + FieldSize(layout[n])

StructSize(layout) == StructSizeUpTo(layout, Len(layout))

FieldOk(f, v) ==
    CASE f = "B" -> v \in 0..255
      [] IsBytesField(f) -> v # None /\ IsBytes(v)
      [] OTHER -> IsUInt(v, FieldSize(f))

\* faulty variant: a short bytes argument is not padded to the field's width
PackField_unpadded(f, v) ==
    CASE f = "B" -> <<v>>
      [] IsBytesField(f) -> SubSeq(v, 1, Min(Len(v), FieldSize(f)))
      [] OTHER -> Reverse(v) \o Rep(0, FieldSize(f) - Len(v))

PackField(f, v) ==
    CASE f = "B" -> <<v>>
      [] IsBytesField(f) ->
            IF Len(v) >= FieldSize(f) THEN SubSeq(v, 1, FieldSize(f))
            ELSE v \o Rep(0, FieldSize(f) - Len(v))
      [] OTHER -> Reverse(v) \o Rep(0, FieldSize(f) - Len(v))

UnpackField(f, b) ==
    CASE f = "B" -> b[1]
      [] IsBytesField(f) -> b
      [] OTHER -> Reverse(RStrip(b, 0))

RECURSIVE PackFields(_, _, _)
PackFields(layout, args, n) ==
    IF n = 0 THEN <<>>
    ELSE PackFields(layout, args, n - 1) \o PackField(layout[n], args[n])

\* struct.pack: the bytes, or struct.error when an argument does not fit
StructPack(layout, args) ==
    IF Len(args) = Len(layout)
       /\ \A i \in 1..Len(layout) : FieldOk(layout[i], args[i])
    THEN [ok |-> TRUE, data |-> PackFields(layout, args, Len(layout))]
    ELSE [ok |-> FALSE, data |-> <<>>]

\* struct.unpack: the field values, or struct.error on a short buffer
StructUnpack(layout, buf) ==
    IF Len(buf) = StructSize(layout)
    THEN [ok |-> TRUE,
          vals |-> [i \in 1..Len(layout) |->
                      UnpackField(layout[i],
                                  Slice(buf, StructSizeUpTo(layout, i - 1),
                                        FieldSize(layout[i])))]]
    ELSE [ok |-> FALSE, vals |-> <<>>]

(***************************************************************************)
(* Enumerations                                                            *)
(***************************************************************************)
StorageType == {0, 1, 2}

VerificationType == {0, 1, 2, 3, 4}

EncryptionType == {0, 1}

AES128 == 1

(***************************************************************************)
(* FileDefSerializer                                                       *)
(***************************************************************************)
STORAGE_MASK == 15

ENCRYPTION_MASK == 240

ENCRYPTION_SHIFT == 4

_file_layout == <<"I", "I", "Q", "I", "I", "B", "B", "I">>

FileDef(name_pos, data_pos, on_disk, in_archive, storage, verification, encryption, crc, hash_pos) ==
    [name_pos |-> name_pos, data_pos |-> data_pos,
     length_on_disk |-> on_disk, length_in_archive |-> in_archive,
     storage_type |-> storage, verification |-> verification,
     encryption |-> encryption, crc |-> crc, hash_pos |-> hash_pos]

storage_value(flags) == BitAnd(flags, STORAGE_MASK)

\* faulty variant: the encryption bits taken with the mask 0x10, so that the high
\* nibbles 2..15 wrap into 0 and 1
encryption_value_wrapping(flags) ==
    ShiftRight(BitAnd(flags, 16), ENCRYPTION_SHIFT)

encryption_value(flags) ==
    ShiftRight(BitAnd(flags, ENCRYPTION_MASK), ENCRYPTION_SHIFT)

\* the result of unpack on the bytes read from the stream
FileDefSerializer_unpack(buf) ==
    LET u == StructUnpack(_file_layout, buf) IN
    IF ~u.ok THEN [err |-> "struct.error", val |-> <<>>]
    ELSE LET v == u.vals IN
         IF /\ storage_value(v[7]) \in StorageType
            /\ encryption_value(v[7]) \in EncryptionType
            /\ v[6] \in VerificationType
         THEN [err |-> "none",
               val |-> FileDef(v[1], v[3], v[5], v[4], storage_value(v[7]),
                               v[6], encryption_value(v[7]), v[8], v[2])]
         ELSE [err |-> "ValueError", val |-> <<>>]

\* faulty variant: the encryption type shifted by 3 bits instead of 4
storage_and_encryption_flags_shift3(value) ==
    BitOr(ShiftLeft(value.encryption, 3), value.storage_type)

storage_and_encryption_flags(value) ==
    BitOr(ShiftLeft(value.encryption, ENCRYPTION_SHIFT), value.storage_type)

\* faulty variant: the two lengths packed in the other order
FileDefSerializer_args_swapped(value) ==
    <<value.name_pos, value.hash_pos, value.data_pos, value.length_on_disk,
      value.length_in_archive, value.verification,
      storage_and_encryption_flags(value), value.crc>>

FileDefSerializer_args(value) ==
    <<value.name_pos, value.hash_pos, value.data_pos, value.length_in_archive,
      value.length_on_disk, value.verification,
      storage_and_encryption_flags(value), value.crc>>

\* the bytes pack hands to the stream, or struct.error
FileDefSerializer_pack(value) ==
    LET p == StructPack(_file_layout, FileDefSerializer_args(value)) IN
    IF p.ok THEN [err |-> "none", data |-> p.data]
    ELSE [err |-> "struct.error", data |-> <<>>]

(***************************************************************************)
(* The utf-16-le codec, str.rstrip, bytes.hex and bytes.fromhex            *)
(***************************************************************************)
IsHighSurrogate(u) == u \in 55296..56319

IsLowSurrogate(u) == u \in 56320..57343

CodeUnit(u) == <<u % 256, u \div 256>>

EncodeChar(c) ==
    IF c < 65536 THEN CodeUnit(c)
    ELSE CodeUnit(55296 + ((c - 65536) \div 1024))
         \o CodeUnit(56320 + ((c - 65536) % 1024))

EncodeChars(s) == Flatten([i \in 1..Len(s) |-> EncodeChar(s[i])], 1, Len(s))

\* str.encode("utf-16-le"): the bytes, or UnicodeEncodeError on a surrogate
utf16le_encode(s) ==
    IF \A i \in 1..Len(s) :
          s[i] \in 0..1114111 /\ ~IsHighSurrogate(s[i]) /\ ~IsLowSurrogate(s[i])
    THEN [ok |-> TRUE, data |-> EncodeChars(s)]
    ELSE [ok |-> FALSE, data |-> <<>>]

UnitAt(b, k) == b[2 * k - 1] + 256 * b[2 * k]

\* what code unit k of the n units of b decodes to: a high surrogate takes
\* the low surrogate after it, which then yields nothing; <<-1>> marks an
\* unpaired surrogate
DecodeUnit(b, k, n) ==
    LET u == UnitAt(b, k) IN
    IF IsHighSurrogate(u)
    THEN IF k < n /\ IsLowSurrogate(UnitAt(b, k + 1))
         THEN <<65536 + (u - 55296) * 1024 + (UnitAt(b, k + 1) - 56320)>>
         ELSE <<-1>>
    ELSE IF IsLowSurrogate(u)
    THEN IF k > 1 /\ IsHighSurrogate(UnitAt(b, k - 1)) THEN <<>> ELSE <<-1>>
    ELSE <<u>>

\* bytes.decode("utf-16-le"): the str, or UnicodeDecodeError
utf16le_decode(b) ==
    LET n == Len(b) \div 2
        s == Flatten([k \in 1..n |-> DecodeUnit(b, k, n)], 1, n)
    IN
    IF Len(b) % 2 = 0 /\ \A i \in 1..Len(s) : s[i] >= 0
    THEN [ok |-> TRUE, str |-> s]
    ELSE [ok |-> FALSE, str |-> <<>>]

HexDigit(n) == IF n < 10 THEN 48 + n ELSE 87 + n

\* faulty variant: the two digits of each byte in the other order
bytes_hex_swapped(b) ==
    [i \in 1..(2 * Len(b)) |->
        IF i % 2 = 1 THEN HexDigit(b[(i + 1) \div 2] % 16)
        ELSE HexDigit(b[i \div 2] \div 16)]

bytes_hex(b) ==
    [i \in 1..(2 * Len(b)) |->
        IF i % 2 = 1 THEN HexDigit(b[(i + 1) \div 2] \div 16)
        ELSE HexDigit(b[i \div 2] % 16)]

HexValue(c) ==
    IF c \in 48..57 THEN c - 48
    ELSE IF c \in 97..102 THEN c - 87
    ELSE IF c \in 65..70 THEN c - 55
    ELSE -1

IsAsciiSpace(c) == c \in {9, 10, 11, 12, 13, 32}

\* the bytes of hex string s, or <<-1>> where s is no hex string: white
\* space is skipped before a byte, and the two digits of a byte are adjacent
RECURSIVE FromHexSpaced(_)
FromHexSpaced(s) ==
    IF s = <<>> THEN <<>>
    ELSE IF IsAsciiSpace(s[1]) THEN FromHexSpaced(Tail(s))
    ELSE IF Len(s) >= 2 /\ HexValue(s[1]) >= 0 /\ HexValue(s[2]) >= 0
    THEN <<16 * HexValue(s[1]) + HexValue(s[2])>> \o FromHexSpaced(Tail(Tail(s)))
    ELSE <<-1>>

\* the same, computed pair by pair when s holds no white space
FromHexDigits(s) ==
    IF \E i \in 1..Len(s) : IsAsciiSpace(s[i]) THEN FromHexSpaced(s)
    ELSE IF Len(s) % 2 = 0 /\ \A i \in 1..Len(s) : HexValue(s[i]) >= 0
    THEN [i \in 1..(Len(s) \div 2) |-> 16 * HexValue(s[2 * i - 1]) + HexValue(s[2 * i])]
    ELSE <<-1>>

\* bytes.fromhex: the bytes, or ValueError
bytes_fromhex(s) ==
    LET b == FromHexDigits(s) IN
    IF \A i \in 1..Len(b) : b[i] >= 0
    THEN [ok |-> TRUE, data |-> b]
    ELSE [ok |-> FALSE, data |-> <<>>]

(***************************************************************************)
(* MetaBlock and ArchiveHeaderSerializer                                   *)
(***************************************************************************)
ArchivePtrs(header_pos, header_size, data_pos, data_size) ==
    [header_pos |-> header_pos, header_size |-> header_size,
     data_pos |-> data_pos, data_size |-> data_size]

ArchivePtrs_default == ArchivePtrs(PyInt(0), PyInt(0), PyInt(0), PyInt(0))

MetaBlock(name, ptrs, sha_256) ==
    [name |-> name, ptrs |-> ptrs, sha_256 |-> sha_256]

\* b"default hash.   "
default_hash_pattern ==
    <<100, 101, 102, 97, 117, 108, 116, 32, 104, 97, 115, 104, 46, 32, 32, 32>>

\* faulty variant: 32 repeats of the pattern
default_sha256_32 == Repeat(default_hash_pattern, 32)

default_sha256 == Repeat(default_hash_pattern, 16)

\* "Default Meta Block"
default_name ==
    <<68, 101, 102, 97, 117, 108, 116, 32, 77, 101, 116, 97, 32,
      66, 108, 111, 99, 107>>

MetaBlock_default == MetaBlock(default_name, <<ArchivePtrs_default>>, default_sha256)

RSV_0 == 0

RSV_1 == 1

_meta_header_layout == <<"128s", "Q", "I", "Q", "I", "I", "I", "256s">>

\* faulty variant: the padding of the name field is not stripped
header_name_padded(encoded_name) ==
    LET d == utf16le_decode(encoded_name) IN [ok |-> d.ok, str |-> d.str]

\* encoded_name.decode(ENCODING).rstrip("\0")
header_name(encoded_name) ==
    LET d == utf16le_decode(encoded_name) IN
    [ok |-> d.ok, str |-> RStrip(d.str, 0)]

\* faulty variant: a mismatch only when both reserved values differ
reserved_mismatch_both(rsv_0, rsv_1) ==
    rsv_0 # PyInt(RSV_0) /\ rsv_1 # PyInt(RSV_1)

reserved_mismatch(rsv_0, rsv_1) ==
    <<rsv_0, rsv_1>> # <<PyInt(RSV_0), PyInt(RSV_1)>>

MismatchError(name, received, expected) ==
    [name |-> name, received |-> received, expected |-> expected]

ArchiveHeaderSerializer_unpack(buf) ==
    LET u == StructUnpack(_meta_header_layout, buf) IN
    IF ~u.ok THEN [err |-> "struct.error", val |-> <<>>]
    ELSE LET v == u.vals
             name == header_name(v[1])
         IN
         IF ~name.ok THEN [err |-> "UnicodeDecodeError", val |-> <<>>]
         ELSE IF reserved_mismatch(v[6], v[7])
         THEN [err |-> "MismatchError",
               val |-> MismatchError("Reserved Flags", <<v[6], v[7]>>,
                                     <<PyInt(RSV_0), PyInt(RSV_1)>>)]
         ELSE [err |-> "none",
               val |-> MetaBlock(name.str, <<ArchivePtrs(v[2], v[3], v[4], v[5])>>,
                                 v[8])]

\* faulty variant: the reserved fields written from the value's data size
ArchiveHeaderSerializer_args_unfixed(value, encoded_name) ==
    <<encoded_name, value.ptrs[1].header_pos, value.ptrs[1].header_size,
      value.ptrs[1].data_pos, value.ptrs[1].data_size,
      PyInt(RSV_0), value.ptrs[1].data_size, value.sha_256>>

ArchiveHeaderSerializer_args(value, encoded_name) ==
    <<encoded_name, value.ptrs[1].header_pos, value.ptrs[1].header_size,
      value.ptrs[1].data_pos, value.ptrs[1].data_size,
      PyInt(RSV_0), PyInt(RSV_1), value.sha_256>>

\* the bytes pack hands to the stream, or the exception it raises
ArchiveHeaderSerializer_pack(value) ==
    IF value.name = None THEN [err |-> "AttributeError", data |-> <<>>]
    ELSE LET e == utf16le_encode(value.name) IN
         IF ~e.ok THEN [err |-> "UnicodeEncodeError", data |-> <<>>]
         ELSE IF value.ptrs = NonePtrs
         THEN [err |-> "AttributeError", data |-> <<>>]
         ELSE LET p == StructPack(_meta_header_layout,
                                  ArchiveHeaderSerializer_args(value, e.data))
              IN IF p.ok THEN [err |-> "none", data |-> p.data]
                 ELSE [err |-> "struct.error", data |-> <<>>]

(***************************************************************************)
(* TocFooter and TocFooterSerializer                                       *)
(***************************************************************************)
TocFooter(unk_a, unk_b, block_size) ==
    [unk_a |-> unk_a, unk_b |-> unk_b, block_size |-> block_size]

_toc_footer_layout == <<"I", "I", "I">>

TocFooterSerializer_unpack(buf) ==
    LET u == StructUnpack(_toc_footer_layout, buf) IN
    IF ~u.ok THEN [err |-> "struct.error", val |-> <<>>]
    ELSE [err |-> "none", val |-> TocFooter(u.vals[1], u.vals[2], u.vals[3])]

TocFooterSerializer_pack(value) ==
    LET p == StructPack(_toc_footer_layout,
                        <<value.unk_a, value.unk_b, value.block_size>>) IN
    IF p.ok THEN [err |-> "none", data |-> p.data]
    ELSE [err |-> "struct.error", data |-> <<>>]

(***************************************************************************)
(* Metadata dictionaries                                                   *)
(***************************************************************************)
assemble_meta(header, footer) ==
    IF header.sha_256 = None THEN [err |-> "AttributeError", val |-> <<>>]
    ELSE [err |-> "none",
          val |-> [sha_256 |-> bytes_hex(header.sha_256), unk_a |-> footer.unk_a,
                   unk_b |-> footer.unk_b, block_size |-> footer.block_size]]

disassemble_meta(metadata) ==
    LET h == bytes_fromhex(metadata.sha_256) IN
    IF ~h.ok THEN [err |-> "ValueError", val |-> <<>>]
    ELSE [err |-> "none",
          val |-> [meta |-> MetaBlock(None, NonePtrs, h.data),
                   footer |-> TocFooter(metadata.unk_a, metadata.unk_b,
                                        metadata.block_size)]]

meta2def(meta) ==
    IF /\ meta.verification_type \in VerificationType
       /\ meta.encryption_type \in EncryptionType
       /\ meta.storage_type \in StorageType
    THEN [err |-> "none",
          val |-> FileDef(None, None, None, None, meta.storage_type,
                          meta.verification_type, meta.encryption_type,
                          meta.crc, meta.hash_pos)]
    ELSE [err |-> "ValueError", val |-> <<>>]

\* faulty variant: the verification and encryption types under each other's key
def2meta_swapped(_def) ==
    [storage_type |-> _def.storage_type, verification_type |-> _def.encryption,
     encryption_type |-> _def.verification, hash_pos |-> _def.hash_pos,
     crc |-> _def.crc]

def2meta(_def) ==
    [storage_type |-> _def.storage_type, verification_type |-> _def.verification,
     encryption_type |-> _def.encryption, hash_pos |-> _def.hash_pos,
     crc |-> _def.crc]

(***************************************************************************)
(* Bounds and the values the operations are applied to                     *)
(***************************************************************************)
\* seek targets are 0..MaxSeek
MaxSeek == 1

\* short names are all strings of at most MaxShortName characters
MaxShortName == 2

\* long names have NAME_CHARS - NameSlack .. NAME_CHARS + NameSlack characters
NameSlack == 1

\* hashes have HASH_SIZE - HashSlack .. HASH_SIZE + HashSlack bytes
HashSlack == 1

NAME_SIZE == 128

HASH_SIZE == 256

NAME_CHARS == NAME_SIZE \div 2

Max32 == Rep(255, 4)

Max64 == Rep(255, 8)

DeadBeef == <<222, 173, 190, 239>>

FileDefs ==
    {FileDef(PyInt(16), PyInt(4096), PyInt(50), PyInt(100), s, v, e, DeadBeef, PyInt(32)) :
        s \in StorageType, v \in VerificationType, e \in EncryptionType}
    \cup {FileDef(PyInt(0), PyInt(0), PyInt(0), PyInt(0), 0, 0, 0, PyInt(0), PyInt(0)),
          FileDef(Max32, Max64, Max32, Max32, 2, 4, 1, Max32, Max32),
          FileDef(PyInt(1), Max64 \o <<0>>, PyInt(1), PyInt(1), 0, 0, 0, PyInt(1), PyInt(1)),
          FileDef(PyInt(1), PyInt(1), PyInt(1), PyInt(1), 1, 1, 1, Max32 \o <<0>>, PyInt(1)),
          FileDef(None, None, None, None, 1, 1, 1, DeadBeef, PyInt(32))}

\* 30 bytes: the fixed fields of the scenario around the two enum bytes
FileBlob(verification_byte, flags_byte) ==
    <<16, 0, 0, 0,  32, 0, 0, 0,  0, 16, 0, 0, 0, 0, 0, 0,  100, 0, 0, 0,  50, 0, 0, 0>>
    \o <<verification_byte, flags_byte>> \o <<239, 190, 173, 222>>

FileBlobs ==
    {FileBlob(1, f) : f \in 0..255}
    \cup {FileBlob(v, 18) : v \in 0..255}
    \cup {Rep(255, 24) \o <<4, 18>> \o Rep(255, 4), Rep(0, 30),
          Rep(0, 29), FileBlob(1, 18) \o <<7>>}

FileMetaDicts ==
    [storage_type : 0..3, verification_type : 0..5, encryption_type : 0..2,
     hash_pos : {PyInt(32)}, crc : {DeadBeef}]

RECURSIVE Strings(_, _)
Strings(chars, n) ==
    IF n = 0 THEN {<<>>}
    ELSE Strings(chars, n - 1)
         \cup {Append(t, c) : t \in Strings(chars, n - 1), c \in chars}

\* NUL, "A" and U+1F600 (a surrogate pair in UTF-16)
NameChars == {0, 65, 128512}

Names ==
    Strings(NameChars, MaxShortName)
    \cup {Rep(65, n) : n \in (NAME_CHARS - NameSlack)..(NAME_CHARS + NameSlack)}
    \cup {Rep(65, n - 1) \o <<128512>> :
             n \in (NAME_CHARS - NameSlack)..(NAME_CHARS + NameSlack)}
    \cup {default_name, <<65, 55357>>, None}

Hashes ==
    {Rep(171, n) : n \in (HASH_SIZE - HashSlack)..(HASH_SIZE + HashSlack)}
    \cup {Rep(0, HASH_SIZE), Rep(171, HASH_SIZE - 1) \o <<0>>, Rep(171, 32), <<>>,
          default_sha256}

PtrsValues ==
    {<<ArchivePtrs_default>>,
     <<ArchivePtrs(PyInt(3673), PyInt(945), PyInt(428), PyInt(3245))>>,
     <<ArchivePtrs(Max64, Max32, Max64, Max32)>>,
     <<ArchivePtrs(PyInt(1), Max32 \o <<0>>, PyInt(1), PyInt(1))>>,
     NonePtrs}

BaseName == <<65, 66>>

BasePtrs == <<ArchivePtrs(PyInt(3673), PyInt(945), PyInt(428), PyInt(3245))>>

BaseHash == Rep(171, HASH_SIZE)

MetaBlocks ==
    {MetaBlock(n, BasePtrs, BaseHash) : n \in Names}
    \cup {MetaBlock(BaseName, p, BaseHash) : p \in PtrsValues}
    \cup {MetaBlock(BaseName, BasePtrs, h) : h \in Hashes}
    \cup {MetaBlock_default, MetaBlock(None, NonePtrs, BaseHash)}

U32Field(n) == Reverse(PyInt(n)) \o Rep(0, 4 - Len(PyInt(n)))

\* the name fields of header blobs: "A", an unpaired high surrogate, an
\* unpaired low surrogate, a surrogate pair, and a name that fills the field
NameFields ==
    {<<65, 0>> \o Rep(0, NAME_SIZE - 2),
     <<0, 216>> \o Rep(0, NAME_SIZE - 2),
     <<65, 0, 0, 220>> \o Rep(0, NAME_SIZE - 4),
     <<61, 216, 0, 222>> \o Rep(0, NAME_SIZE - 4),
     Rep(65, NAME_SIZE)}

ReservedFields == {U32Field(0), U32Field(1), U32Field(2), <<0, 0, 0, 1>>, Rep(255, 4)}

HeaderBlob(name_field, rsv_0, rsv_1) ==
    name_field \o <<89, 14, 0, 0, 0, 0, 0, 0,  177, 3, 0, 0>>
    \o <<172, 1, 0, 0, 0, 0, 0, 0,  173, 12, 0, 0>> \o rsv_0 \o rsv_1 \o BaseHash

HeaderBlobs ==
    {HeaderBlob(n, a, b) : n \in NameFields, a \in ReservedFields, b \in ReservedFields}
    \cup {Rep(0, NAME_SIZE + 32 + HASH_SIZE), Rep(0, NAME_SIZE + 31 + HASH_SIZE)}

U32Samples == {PyInt(0), PyInt(1), DeadBeef, Max32}

Footers ==
    {TocFooter(a, PyInt(2), PyInt(65536)) : a \in U32Samples}
    \cup {TocFooter(PyInt(1), b, PyInt(65536)) : b \in U32Samples}
    \cup {TocFooter(PyInt(1), PyInt(2), c) : c \in U32Samples}
    \cup {TocFooter(PyInt(1), PyInt(2), Max32 \o <<0>>)}

BaseFooter == TocFooter(PyInt(1), PyInt(2), PyInt(65536))

FooterBlobs ==
    {a \o b \o c : a \in ReservedFields, b \in {U32Field(2)}, c \in ReservedFields}
    \cup {Rep(0, 11), Rep(0, 13)}

\* hex strings that assemble_meta does not produce: upper case, spaces, and
\* two that are no hex strings
MetaDicts ==
    {[sha_256 |-> h, unk_a |-> PyInt(1), unk_b |-> PyInt(2), block_size |-> PyInt(65536)] :
        h \in {<<65, 66, 32, 48, 49>>, <<97, 98, 99>>, <<103, 48>>, <<>>}}

Serializers == {"file", "header", "footer", "archive_meta", "file_meta"}

Blobs(s) == CASE s = "file" -> FileBlobs
              [] s = "header" -> HeaderBlobs
              [] s = "footer" -> FooterBlobs
              [] OTHER -> {}

(***************************************************************************)
(* The state machine: one serializer, one stream, and the last two calls   *)
(***************************************************************************)
NoCall == [op |-> "none", at |-> 0, arg |-> <<>>, ret |-> <<>>, err |-> "none"]

Call(op, at, arg, ret, err) ==
    [op |-> op, at |-> at, arg |-> arg, ret |-> ret, err |-> err]

Init ==
    /\ ser \in Serializers
    /\ \/ mode = "w+b" /\ stream = <<>>
       \/ mode = "rb" /\ stream \in Blobs(ser)
    /\ pos = 0
    /\ prev = NoCall
    /\ last = NoCall

\* layout.pack_stream: p is the result of packing value
pack_stream(op, value, p) ==
    /\ mode = "w+b"
    /\ prev.op = "none"
    /\ stream' = StreamWrite(stream, pos, p.data)
    /\ pos' = pos + Len(p.data)
    /\ last' = Call(op, pos, value, IF p.err = "none" THEN Len(p.data) ELSE -1, p.err)
    /\ prev' = last
    /\ UNCHANGED <<mode, ser>>

\* layout.unpack_stream followed by the serializer's conversion r of the bytes
unpack_stream(op, buf, r) ==
    /\ prev.op = "none"
    /\ pos' = pos + Len(buf)
    /\ last' = Call(op, pos, buf, r.val, r.err)
    /\ prev' = last
    /\ UNCHANGED <<stream, mode, ser>>

\* a call that touches no stream
pure_call(op, arg, r) ==
    /\ prev.op = "none"
    /\ last' = Call(op, pos, arg, r.val, r.err)
    /\ prev' = last
    /\ UNCHANGED <<stream, pos, mode, ser>>

Returned(op) == IF last.op = op /\ last.err = "none" THEN {last.ret} ELSE {}

FileDefPack ==
    /\ ser = "file"
    /\ \E value \in FileDefs \cup Returned("unpack_file") :
          pack_stream("pack_file", value, FileDefSerializer_pack(value))

FileDefUnpack ==
    /\ ser = "file"
    /\ LET buf == StreamRead(stream, pos, StructSize(_file_layout)) IN
       unpack_stream("unpack_file", buf, FileDefSerializer_unpack(buf))

HeaderPack ==
    /\ ser = "header"
    /\ \E value \in MetaBlocks \cup Returned("unpack_header") \cup Returned("default") :
          pack_stream("pack_header", value, ArchiveHeaderSerializer_pack(value))

HeaderUnpack ==
    /\ ser = "header"
    /\ LET buf == StreamRead(stream, pos, StructSize(_meta_header_layout)) IN
       unpack_stream("unpack_header", buf, ArchiveHeaderSerializer_unpack(buf))

GenEmptyMeta ==
    /\ ser = "header"
    /\ pure_call("default", <<>>, [err |-> "none", val |-> MetaBlock_default])

FooterPack ==
    /\ ser = "footer"
    /\ \E value \in Footers \cup Returned("unpack_footer") :
          pack_stream("pack_footer", value, TocFooterSerializer_pack(value))

FooterUnpack ==
    /\ ser = "footer"
    /\ LET buf == StreamRead(stream, pos, StructSize(_toc_footer_layout)) IN
       unpack_stream("unpack_footer", buf, TocFooterSerializer_unpack(buf))

AssembleMeta ==
    /\ ser = "archive_meta"
    /\ \E a \in {[header |-> h, footer |-> BaseFooter] : h \in MetaBlocks}
                \cup {[header |-> MetaBlock_default, footer |-> f] : f \in Footers}
                \cup {[header |-> r.meta, footer |-> r.footer] :
                         r \in Returned("disassemble_meta")} :
          pure_call("assemble_meta", a, assemble_meta(a.header, a.footer))

DisassembleMeta ==
    /\ ser = "archive_meta"
    /\ \E metadata \in MetaDicts \cup Returned("assemble_meta") :
          pure_call("disassemble_meta", metadata, disassemble_meta(metadata))

Def2Meta ==
    /\ ser = "file_meta"
    /\ \E _def \in FileDefs \cup Returned("meta2def") :
          pure_call("def2meta", _def, [err |-> "none", val |-> def2meta(_def)])

Meta2Def ==
    /\ ser = "file_meta"
    /\ \E meta \in FileMetaDicts \cup Returned("def2meta") :
          pure_call("meta2def", meta, meta2def(meta))

\* stream.seek(target) in a stream being written, between the calls
Seek ==
    /\ ser \in {"file", "header", "footer"}
    /\ mode = "w+b"
    /\ prev.op = "none"
    /\ \E target \in (0..MaxSeek) \cup {last.at} :
          /\ target # pos
          /\ pos' = target
    /\ UNCHANGED <<stream, mode, ser, prev, last>>

\* what was read is written to a new, empty stream
NewStream ==
    /\ mode = "rb"
    /\ last.op # "none"
    /\ last.err = "none"
    /\ prev.op = "none"
    /\ stream' = <<>>
    /\ pos' = 0
    /\ mode' = "w+b"
    /\ UNCHANGED <<ser, prev, last>>

Next ==
    \/ FileDefPack
    \/ FileDefUnpack
    \/ HeaderPack
    \/ HeaderUnpack
    \/ GenEmptyMeta
    \/ FooterPack
    \/ FooterUnpack
    \/ AssembleMeta
    \/ DisassembleMeta
    \/ Def2Meta
    \/ Meta2Def
    \/ Seek
    \/ NewStream

Spec == Init /\ [][Next]_vars

(***************************************************************************)
(* Properties                                                              *)
(***************************************************************************)
\* the unsigned little-endian field of w bytes that holds the int v
LittleEndian(v, w) == Reverse(v) \o Rep(0, w - Len(v))

\* the last call reads, at the same position, what the call before it wrote
ReadsBack(unpack_op, pack_op) ==
    /\ last.op = unpack_op
    /\ prev.op = pack_op
    /\ prev.err = "none"
    /\ last.at = prev.at

\* C1: unpack of the bytes that pack wrote for a FileDef returns that FileDef,
\* field for field, and the packed byte is (encryption << 4) | storage, from
\* which unpack recovers both types.
FileDefRoundTrip ==
    ReadsBack("unpack_file", "pack_file")
    => /\ last.err = "none"
       /\ last.ret = prev.arg
       /\ last.arg[26] = 16 * prev.arg.encryption + prev.arg.storage_type

FileDefRoundTripWitness ==
    /\ ReadsBack("unpack_file", "pack_file")
    /\ prev.arg.storage_type = 2
    /\ prev.arg.encryption = AES128
    /\ prev.arg.crc = DeadBeef
    /\ last.arg[26] = 18
    /\ last.ret = prev.arg

\* C4: on 30 bytes, unpack returns a FileDef exactly when the low nibble of
\* the packed byte is a StorageType, its high nibble an EncryptionType and the
\* verification byte a VerificationType, and then with these three values;
\* otherwise it raises ValueError and returns nothing.
FileDefDomainError ==
    (last.op = "unpack_file" /\ Len(last.arg) = 30)
    => IF /\ last.arg[26] % 16 \in StorageType
          /\ last.arg[26] \div 16 \in EncryptionType
          /\ last.arg[25] \in VerificationType
       THEN /\ last.err = "none"
            /\ last.ret.storage_type = last.arg[26] % 16
            /\ last.ret.encryption = last.arg[26] \div 16
            /\ last.ret.verification = last.arg[25]
       ELSE /\ last.err = "ValueError"
            /\ last.ret = <<>>

\* packed byte 0x22: storage type 2, and the encryption nibble 2 is no member
FileDefDomainErrorWitness ==
    /\ last.op = "unpack_file"
    /\ Len(last.arg) = 30
    /\ last.arg[26] = 34
    /\ last.arg[25] \in VerificationType
    /\ last.err = "ValueError"

\* C5: pack of the FileDef that unpack decoded from 30 bytes writes these 30
\* bytes again, the fields in the order name_pos, hash_pos, data_pos,
\* length_in_archive, length_on_disk, verification_type, storage+encryption
\* byte, crc.
FileDefReencode ==
    (/\ last.op = "pack_file"
     /\ prev.op = "unpack_file"
     /\ prev.err = "none"
     /\ last.arg = prev.ret)
    => /\ last.err = "none"
       /\ last.ret = 30
       /\ Slice(stream, last.at, 30) = prev.arg
       /\ prev.arg = LittleEndian(last.arg.name_pos, 4)
                     \o LittleEndian(last.arg.hash_pos, 4)
                     \o LittleEndian(last.arg.data_pos, 8)
                     \o LittleEndian(last.arg.length_in_archive, 4)
                     \o LittleEndian(last.arg.length_on_disk, 4)
                     \o <<last.arg.verification,
                          16 * last.arg.encryption + last.arg.storage_type>>
                     \o LittleEndian(last.arg.crc, 4)

\* the scenario: packed byte 0x12, crc 0xDEADBEEF
FileDefReencodeWitness ==
    /\ last.op = "pack_file"
    /\ prev.op = "unpack_file"
    /\ prev.err = "none"
    /\ last.arg = prev.ret
    /\ prev.arg = <<16, 0, 0, 0,  32, 0, 0, 0,  0, 16, 0, 0, 0, 0, 0, 0,
                    100, 0, 0, 0,  50, 0, 0, 0,  1, 18,  239, 190, 173, 222>>
    /\ prev.ret.storage_type = 2
    /\ prev.ret.encryption = AES128
    /\ prev.ret.verification = 1
    /\ prev.ret.crc = DeadBeef
    /\ stream = prev.arg

\* the number of UTF-16 code units of the str s
Utf16Units(s) == Len(s) + Cardinality({i \in 1..Len(s) : s[i] >= 65536})

\* the reserved fields of a 416-byte header
ReservedBytes(b) == Slice(b, 152, 8)

\* C2 as stated: unpack of the bytes that pack wrote for a MetaBlock returns
\* that MetaBlock, whatever its name and hash.
HeaderRoundTripAny ==
    ReadsBack("unpack_header", "pack_header")
    => (last.err = "none" /\ last.ret = prev.arg)

\* C2, amended: unpack of the bytes that pack wrote for a MetaBlock returns
\* that MetaBlock (name, four pointers, sha_256) when the name has at most 64
\* UTF-16 code units and does not end in NUL and sha_256 has 256 bytes.
HeaderRoundTrip ==
    (/\ ReadsBack("unpack_header", "pack_header")
     /\ Utf16Units(prev.arg.name) <= 64
     /\ (prev.arg.name = <<>> \/ prev.arg.name[Len(prev.arg.name)] # 0)
     /\ Len(prev.arg.sha_256) = 256)
    => /\ last.err = "none"
       /\ last.ret.name = prev.arg.name
       /\ last.ret.ptrs = prev.arg.ptrs
       /\ last.ret.sha_256 = prev.arg.sha_256

\* a name that fills the field, with a character outside the BMP at its end
HeaderRoundTripWitness ==
    /\ ReadsBack("unpack_header", "pack_header")
    /\ prev.arg.name = Rep(65, 62) \o <<128512>>
    /\ prev.arg.ptrs = BasePtrs
    /\ last.err = "none"
    /\ last.ret = prev.arg

\* C3 as stated: on 416 bytes unpack succeeds when the reserved fields are
\* (0, 1) and raises MismatchError with the observed and the expected pair
\* otherwise, whatever the other fields hold.
HeaderReservedAny ==
    (last.op = "unpack_header" /\ Len(last.arg) = 416)
    => IF ReservedBytes(last.arg) = <<0, 0, 0, 0, 1, 0, 0, 0>>
       THEN last.err = "none"
       ELSE /\ last.err = "MismatchError"
            /\ last.ret.received = <<Reverse(RStrip(Slice(last.arg, 152, 4), 0)),
                                     Reverse(RStrip(Slice(last.arg, 156, 4), 0))>>
            /\ last.ret.expected = <<<<>>, <<1>>>>

\* C3, amended: the same on 416 bytes whose name field is valid UTF-16-LE;
\* on a name field that is not, unpack raises UnicodeDecodeError whatever the
\* reserved fields hold.
HeaderReserved ==
    (last.op = "unpack_header" /\ Len(last.arg) = 416)
    => IF ~utf16le_decode(Slice(last.arg, 0, 128)).ok
       THEN last.err = "UnicodeDecodeError" /\ last.ret = <<>>
       ELSE IF ReservedBytes(last.arg) = <<0, 0, 0, 0, 1, 0, 0, 0>>
       THEN last.err = "none"
       ELSE /\ last.err = "MismatchError"
            /\ last.ret.received = <<Reverse(RStrip(Slice(last.arg, 152, 4), 0)),
                                     Reverse(RStrip(Slice(last.arg, 156, 4), 0))>>
            /\ last.ret.expected = <<<<>>, <<1>>>>

\* the reserved fields (1, 1) under a valid name
HeaderReservedWitness ==
    /\ last.op = "unpack_header"
    /\ Len(last.arg) = 416
    /\ ReservedBytes(last.arg) = <<1, 0, 0, 0, 1, 0, 0, 0>>
    /\ last.err = "MismatchError"
    /\ last.ret.received = <<<<1>>, <<1>>>>

\* C6: every header pack writes holds 0 and 1 in its reserved fields, and
\* unpack of a header that pack wrote never raises MismatchError.
HeaderPackReserved ==
    /\ (last.op = "pack_header" /\ last.err = "none")
       => ReservedBytes(Slice(stream, last.at, 416)) = <<0, 0, 0, 0, 1, 0, 0, 0>>
    /\ ReadsBack("unpack_header", "pack_header") => last.err # "MismatchError"

\* a header decoded before, and another value packed after it
HeaderPackReservedWitness ==
    /\ last.op = "pack_header"
    /\ last.err = "none"
    /\ prev.op = "unpack_header"
    /\ prev.err = "none"
    /\ last.arg.ptrs = <<ArchivePtrs(Max64, Max32, Max64, Max32)>>
    /\ ReservedBytes(Slice(stream, last.at, 416)) = <<0, 0, 0, 0, 1, 0, 0, 0>>

IsLowerHex(c) == c \in (48..57) \cup (97..102)

\* C7: disassemble_meta of the dictionary of assemble_meta(meta, footer)
\* returns the footer's unk_a, unk_b and block_size and a MetaBlock with
\* meta's sha_256, of which the dictionary holds the hex digits, and with name
\* and ptrs None.
MetaDictRoundTrip ==
    (/\ last.op = "disassemble_meta"
     /\ prev.op = "assemble_meta"
     /\ prev.err = "none"
     /\ last.arg = prev.ret)
    => /\ last.err = "none"
       /\ last.ret.footer = prev.arg.footer
       /\ last.ret.meta.sha_256 = prev.arg.header.sha_256
       /\ last.ret.meta.name = None
       /\ last.ret.meta.ptrs = NonePtrs
       /\ DOMAIN prev.ret = {"sha_256", "unk_a", "unk_b", "block_size"}
       /\ Len(prev.ret.sha_256) = 2 * Len(prev.arg.header.sha_256)
       /\ \A i \in 1..Len(prev.ret.sha_256) : IsLowerHex(prev.ret.sha_256[i])

MetaDictRoundTripWitness ==
    /\ last.op = "disassemble_meta"
    /\ prev.op = "assemble_meta"
    /\ prev.err = "none"
    /\ last.arg = prev.ret
    /\ prev.arg.header.name = default_name
    /\ prev.arg.header.ptrs # NonePtrs
    /\ prev.arg.footer.unk_a = DeadBeef
    /\ last.ret.meta.name = None
    /\ last.ret.meta.sha_256 = prev.arg.header.sha_256

\* C8 as stated: the hash of MetaBlock.default() is 32 repeats of the
\* 16-byte pattern, and its pointers are ArchivePtrs.default().
DefaultHash32Repeats ==
    last.op = "default"
    => /\ last.ret.sha_256 = Repeat(default_hash_pattern, 32)
       /\ last.ret.ptrs = <<ArchivePtrs_default>>

\* C8, amended: the hash of MetaBlock.default() is 16 repeats of the 16-byte
\* pattern b"default hash.   ", 256 bytes, and its pointers are
\* ArchivePtrs.default().
DefaultHash16Repeats ==
    last.op = "default"
    => /\ Len(last.ret.sha_256) = 256
       /\ \A i \in 0..15 :
             Slice(last.ret.sha_256, 16 * i, 16)
             = <<100, 101, 102, 97, 117, 108, 116, 32, 104, 97, 115, 104, 46, 32, 32, 32>>
       /\ last.ret.ptrs = <<ArchivePtrs_default>>

DefaultHashWitness ==
    /\ last.op = "default"
    /\ last.ret.name = default_name
    /\ Len(last.ret.sha_256) = HASH_SIZE

\* C9: meta2def of def2meta(d) has d's storage_type, verification,
\* encryption, hash_pos and crc and None for name_pos, data_pos,
\* length_on_disk and length_in_archive; def2meta returns exactly the keys
\* storage_type, verification_type, encryption_type, hash_pos, crc; meta2def
\* raises ValueError exactly when one of the three types is no member.
FileMetaRoundTrip ==
    /\ (/\ last.op = "meta2def"
        /\ prev.op = "def2meta"
        /\ last.arg = prev.ret)
       => /\ last.err = "none"
          /\ last.ret.storage_type = prev.arg.storage_type
          /\ last.ret.verification = prev.arg.verification
          /\ last.ret.encryption = prev.arg.encryption
          /\ last.ret.hash_pos = prev.arg.hash_pos
          /\ last.ret.crc = prev.arg.crc
          /\ last.ret.name_pos = None
          /\ last.ret.data_pos = None
          /\ last.ret.length_on_disk = None
          /\ last.ret.length_in_archive = None
    /\ last.op = "def2meta"
       => /\ DOMAIN last.ret = {"storage_type", "verification_type",
                                "encryption_type", "hash_pos", "crc"}
          /\ last.ret.storage_type = last.arg.storage_type
          /\ last.ret.verification_type = last.arg.verification
          /\ last.ret.encryption_type = last.arg.encryption
    /\ last.op = "meta2def"
       => IF /\ last.arg.storage_type \in StorageType
             /\ last.arg.verification_type \in VerificationType
             /\ last.arg.encryption_type \in EncryptionType
          THEN last.err = "none"
          ELSE last.err = "ValueError" /\ last.ret = <<>>

FileMetaRoundTripWitness ==
    /\ last.op = "meta2def"
    /\ prev.op = "def2meta"
    /\ last.arg = prev.ret
    /\ prev.arg.name_pos = <<16>>
    /\ prev.arg.data_pos = <<16, 0>>
    /\ prev.arg.verification = 4
    /\ prev.arg.encryption = AES128
    /\ last.ret.name_pos = None
    /\ last.ret.verification = 4

\* C10: a pack that succeeds writes and returns 416 bytes for a MetaBlock, 30
\* for a FileDef and 12 for a TocFooter, whatever the value; a header packed
\* where a header was packed before ends where that one ended.
PackSizes ==
    /\ (last.op \in {"pack_header", "pack_file", "pack_footer"} /\ last.err = "none")
       => /\ last.ret = (CASE last.op = "pack_header" -> 416
                           [] last.op = "pack_file" -> 30
                           [] last.op = "pack_footer" -> 12)
          /\ Len(stream) >= last.at + last.ret
    /\ (/\ last.op = "pack_header" /\ last.err = "none"
        /\ prev.op = "pack_header" /\ prev.err = "none"
        /\ last.at = prev.at)
       => /\ Len(stream) = prev.at + 416
          /\ last.ret = prev.ret

\* the placeholder at position 1, then a header with a one-character name
\* at position 1
PackSizesWitness ==
    /\ last.op = "pack_header" /\ last.err = "none"
    /\ prev.op = "pack_header" /\ prev.err = "none"
    /\ prev.arg = MetaBlock_default
    /\ last.arg.name = <<65>>
    /\ prev.at = 1
    /\ last.at = 1
    /\ Len(stream) = 417

====
